---- MODULE Spec2Model ----
(***************************************************************************)
(* Restore-then-export backup job of lambda_function.py and its            *)
(* short-interval variant lambda_function_test.py, run against a model of  *)
(* the table service (describe_table, delete_table,                        *)
(* restore_table_to_point_in_time, export_table_*, describe_export).       *)
(* Every external call is one step; the handler code between two calls    *)
(* belongs to the step of the call that precedes it.                      *)
(* The live-export job of monthly_backup_lambda.py (date computation and   *)
(* one export call) is modelled beside it, in the variable live.          *)
(***************************************************************************)
EXTENDS Integers, Sequences, FiniteSets, TLC

\* ---------------------------------------------------------------- bounds
MaxClock == 1
MaxPolls == 2
MaxCalls == 3

\* ------------------------------------------------------ program constants
MAX_RETRIES == 3
WAIT_TIME == 30
BACKOFF_CAP == 300
EXP_MIN == 4
EXP_MAX == 10

Runs == {1, 2}
SingleRun == {1}
Variants == {"lambda_function", "lambda_function_test"}

Min(a, b) == IF a < b THEN a ELSE b
Max(a, b) == IF a > b THEN a ELSE b

\* ------------------------------------------------------------ table names
\* f"{SOURCE_TABLE_NAME}-restored-{int(time.time())}" and the -test-restored-
\* template: a name is the template and the epoch second it was built from.
Template(v) == IF v = "lambda_function" THEN "-restored-" ELSE "-test-restored-"
TempTableName(v, epoch) == <<Template(v), epoch>>
Names == {TempTableName(v, t) : v \in Variants, t \in 0..MaxClock}
OwnNames(v) == {TempTableName(v, t) : t \in 0..MaxClock}
NoName == <<>>

\* ----------------------------------------------------------------- errors
\* An exception is its class, the handler step it came from and the pieces
\* its str() is made of.
Err(type, origin, msg) == [type |-> type, origin |-> origin, msg |-> msg]
NoError == Err("None", "none", <<>>)
Running == Err("Running", "none", <<>>)
Returned == Err("Returned", "none", <<>>)
ClientError(origin, code) == Err("ClientError", origin, <<code>>)
ResourceNotFound(origin) == Err("ResourceNotFoundException", origin, <<"ResourceNotFoundException">>)
UnexpectedTableStatus(origin, status) == Err("Exception", origin, <<"Unexpected table status: ", status>>)
Absent == "<absent>"
FailureMessages == {"X", Absent}
\* export_desc['ExportDescription'].get('FailureMessage', 'No failure message')
GetFailureMessage(m) == IF m = Absent THEN "No failure message" ELSE m
ExportFailed(m) == Err("Exception", "wait_export", <<"Export failed or cancelled: ", GetFailureMessage(m)>>)
UnexpectedExportStatus(status) == Err("Exception", "wait_export", <<"Unexpected export status: ", status>>)
\* tenacity.RetryError: str() is "RetryError[<Future ... raised <class>>]"
RetryError(e) == Err("RetryError", e.origin, <<"RetryError[<Future state=finished raised ", e.type, ">]">>)
Contains(e, piece) == \E i \in 1..Len(e.msg) : e.msg[i] = piece

VARIABLES run, tables, owner, exports, clock, transient, live
vars == <<run, tables, owner, exports, clock, transient, live>>

\* ---------------------------------------------------------- retry wrappers
\* pc values name the external call the run makes next.
CleanupPcs == {"cleanup_describe", "cleanup_delete", "wait_deleted"}
WaitPcs == {"wait_active", "wait_export", "wait_deleted"}
InitiatingPcs == {"restore", "export"}
\* @retry(stop=stop_after_attempt(MAX_RETRIES), wait=wait_exponential(...))
Decorated(v, pc) == v = "lambda_function" /\ pc \in WaitPcs
\* retry_with_backoff(dynamodb_client.restore_table_to_point_in_time, ...)
BackedOff(v, pc) == v = "lambda_function_test" /\ pc \in InitiatingPcs
Wrapped(v, pc) == Decorated(v, pc) \/ BackedOff(v, pc)

RECURSIVE Pow2(_)
Pow2(n) == IF n = 0 THEN 1 ELSE 2 * Pow2(n - 1)
\* wait_time = min(WAIT_TIME * (2 ** attempt), 300), attempt counted from 0
retry_with_backoff_wait(attempt) == Min(WAIT_TIME * Pow2(attempt), BACKOFF_CAP)
\* wait_exponential(multiplier=1, min=4, max=10), attempt_number from 1
wait_exponential(attempt_number) == Max(EXP_MIN, Min(1 * Pow2(attempt_number - 1), EXP_MAX))
\* the sleep after the n-th failed attempt (n from 1)
RetryDelay(v, n) == IF v = "lambda_function" THEN wait_exponential(n) ELSE retry_with_backoff_wait(n - 1)
\* what leaves the wrapper when the last allowed attempt raised e
Exhausted(v, e) == IF v = "lambda_function" THEN RetryError(e) ELSE e

\* -------------------------------------------------------- handler control
\* Program state of one invocation (variant, pc, phase, temp_table_name, the
\* table_name argument of the function it is in, pending, attempts, polls) and the record of what it did: the calls it made
\* and with which arguments, the errors that reached the handler, the result.
NewRun(v) ==
  [variant |-> v, pc |-> "idle", phase |-> "try", temp_table_name |-> NoName,
   table_name |-> NoName,
   pending |-> NoError, outcome |-> "running", raised |-> NoError,
   wrapped |-> "none", attempts |-> 0, lastAttempt |-> NoError, delays |-> <<>>,
   wrapResult |-> NoError, polls |-> 0, cleanups |-> <<>>, deleteCalls |-> 0,
   restoreArgs |-> {}, waitArgs |-> {}, failures |-> <<>>, exportFailure |-> Absent,
   unexpected |-> {}, deletedOwners |-> {}, exportedOwners |-> {}, inFlight |-> {},
   waited |-> "none", observed |-> <<>>, steps |-> <<>>, deletedWhile |-> {}]

\* control reaches the call named pc; a wrapped call starts a fresh wrapper, a
\* wait starts with nothing observed
Goto(s, pc) ==
  LET t == [s EXCEPT !.pc = pc, !.polls = 0,
                     !.waited = IF pc \in WaitPcs THEN pc ELSE @,
                     !.observed = IF pc \in WaitPcs THEN <<>> ELSE @]
  IN IF Wrapped(s.variant, pc)
       THEN [t EXCEPT !.wrapped = pc, !.attempts = 0, !.lastAttempt = NoError,
                     !.delays = <<>>, !.wrapResult = Running]
       ELSE t

Finish(s, outcome, e) == [s EXCEPT !.pc = "done", !.outcome = outcome, !.raised = e]
\* return {'statusCode': 200, ...}
Return200(s) == Finish(s, "returned", NoError)
\* the bare raise that ends the except block
ReRaise(s) == Finish(s, "raised", s.pending)
\* cleanup_temp_table(table_name) is entered
CallCleanupOn(s, name) ==
  Goto([s EXCEPT !.table_name = name,
                 !.cleanups = Append(@, [name |-> name, status |-> tables[name],
                                         deletes |-> 0, result |-> "running",
                                         error |-> NoError])],
       "cleanup_describe")
\* (variant: the name is built again, a second later)
CallCleanup_Recomputed(s) ==
  CallCleanupOn(s, TempTableName(s.variant, (s.temp_table_name[2] + 1) % (MaxClock + 1)))
\* cleanup_temp_table(temp_table_name)
CallCleanup(s) == CallCleanupOn(s, s.temp_table_name)
\* (variant: the except block raises without cleaning up)
HandlerExcept_NoCleanup(s, e) ==
  ReRaise([s EXCEPT !.phase = "except", !.pending = e, !.failures = Append(@, e)])
\* except Exception as e: ... cleanup_temp_table(temp_table_name)
HandlerExcept(s, e) ==
  CallCleanup([s EXCEPT !.phase = "except", !.pending = e, !.failures = Append(@, e)])
\* cleanup_temp_table returns to the caller it has: the try block, the except
\* block, or a caller of its own
CleanupReturned(s) ==
  LET t == [s EXCEPT !.cleanups[Len(s.cleanups)].result = "returned"]
  IN CASE s.phase = "try" -> Return200(t)
       [] s.phase = "except" -> ReRaise(t)
       [] s.phase = "direct" -> [t EXCEPT !.pc = "idle"]
\* (variant: a cleanup failure inside the except block replaces the pending error)
CleanupRaised_Masks(s, e) ==
  LET t == [s EXCEPT !.cleanups[Len(s.cleanups)].result = "raised",
                     !.cleanups[Len(s.cleanups)].error = e]
  IN CASE s.phase = "try" -> HandlerExcept(t, e)
       [] s.phase = "except" -> Finish([t EXCEPT !.failures = Append(@, e)], "raised", e)
       [] s.phase = "direct" -> [t EXCEPT !.pc = "idle"]
\* (variant: a cleanup that raises inside the try block is swallowed)
CleanupRaised_Swallowed(s, e) ==
  LET t == [s EXCEPT !.cleanups[Len(s.cleanups)].result = "raised",
                     !.cleanups[Len(s.cleanups)].error = e]
  IN CASE s.phase = "try" -> Return200(t)
       [] s.phase = "except" -> ReRaise([t EXCEPT !.failures = Append(@, e)])
       [] s.phase = "direct" -> [t EXCEPT !.pc = "idle"]
\* a cleanup that raises inside the try block enters the except block; one that
\* raises inside the except block is logged and the pending error is raised
CleanupRaised(s, e) ==
  LET t == [s EXCEPT !.cleanups[Len(s.cleanups)].result = "raised",
                     !.cleanups[Len(s.cleanups)].error = e]
  IN CASE s.phase = "try" -> HandlerExcept(t, e)
       [] s.phase = "except" -> ReRaise([t EXCEPT !.failures = Append(@, e)])
       [] s.phase = "direct" -> [t EXCEPT !.pc = "idle"]
\* (variant: a missing table is an error like any other)
CleanupExcept_NotFoundRaises(s, e) == CleanupRaised(s, e)
\* the except clauses of cleanup_temp_table
CleanupExcept(s, e) ==
  IF e.type = "ResourceNotFoundException" THEN CleanupReturned(s) ELSE CleanupRaised(s, e)
\* an exception leaves the call at s.pc
Raise(s, e) == IF s.pc \in CleanupPcs THEN CleanupExcept(s, e) ELSE HandlerExcept(s, e)

\* the body of the call at s.pc raised e
Fail(s, e) ==
  IF Wrapped(s.variant, s.pc)
    THEN LET n == s.attempts + 1
             t == [s EXCEPT !.attempts = n, !.lastAttempt = e]
         IN IF n < MAX_RETRIES
              THEN [t EXCEPT !.delays = Append(@, RetryDelay(s.variant, n)), !.polls = 0,
                             !.observed = <<>>]
              ELSE LET f == Exhausted(s.variant, e)
                   IN Raise([t EXCEPT !.wrapResult = f], f)
    ELSE Raise(s, e)

\* the call at s.pc returned
Done(s) ==
  LET u == [s EXCEPT !.steps = Append(@, s.pc)]
      t == IF Wrapped(s.variant, s.pc)
             THEN [u EXCEPT !.attempts = @ + 1, !.lastAttempt = Returned, !.wrapResult = Returned]
             ELSE u
  IN CASE s.pc = "restore" ->
            Goto([t EXCEPT !.table_name = s.temp_table_name,
                           !.waitArgs = @ \cup {s.temp_table_name}], "wait_active")
       [] s.pc = "wait_active" -> Goto(t, "export")
       [] s.pc = "export" -> Goto(t, "wait_export")
       [] s.pc = "wait_export" -> CallCleanup(t)
       [] s.pc = "cleanup_describe" -> Goto(t, "cleanup_delete")
       [] s.pc = "cleanup_delete" ->
            Goto([t EXCEPT !.waitArgs = @ \cup {s.table_name}], "wait_deleted")
       [] s.pc = "wait_deleted" -> CleanupReturned(t)

\* time.sleep(WAIT_TIME) and the next turn of the while True loop
Sleep(s) == [s EXCEPT !.polls = @ + 1]
\* what a describe call of the wait in progress answered, and whether the loop
\* slept on it
Observe(s, answer, slept) == [s EXCEPT !.observed = Append(@, <<answer, slept>>)]

\* ------------------------------------------- monthly_backup_lambda: dates
\* datetime.now(jst): a calendar date and a time of day
Years == {2023, 2024, 2100}
IsLeap(y) == (y % 4 = 0 /\ y % 100 # 0) \/ y % 400 = 0
DaysIn(y, m) ==
  IF m = 2 THEN (IF IsLeap(y) THEN 29 ELSE 28)
  ELSE IF m \in {4, 6, 9, 11} THEN 30 ELSE 31
DateTime(y, m, d, hms) == [year |-> y, month |-> m, day |-> d, hms |-> hms]
TimesOfDay == {<<0, 0, 0>>, <<10, 0, 0>>}
Nows == {DateTime(y, m, d, t) : y \in Years, m \in 1..12, d \in 1..31, t \in TimesOfDay}
ValidDate(dt) == dt.day \in 1..DaysIn(dt.year, dt.month)
\* dt + timedelta(days=1), dt - timedelta(days=1)
NextDay(dt) ==
  IF dt.day < DaysIn(dt.year, dt.month) THEN [dt EXCEPT !.day = @ + 1]
  ELSE IF dt.month < 12 THEN [dt EXCEPT !.month = @ + 1, !.day = 1]
  ELSE [dt EXCEPT !.year = @ + 1, !.month = 1, !.day = 1]
PrevDay(dt) ==
  IF dt.day > 1 THEN [dt EXCEPT !.day = @ - 1]
  ELSE IF dt.month > 1 THEN [dt EXCEPT !.month = @ - 1, !.day = DaysIn(dt.year, dt.month - 1)]
  ELSE [dt EXCEPT !.year = @ - 1, !.month = 12, !.day = 31]
RECURSIVE PlusDays(_, _)
PlusDays(dt, n) ==
  IF n = 0 THEN dt ELSE IF n > 0 THEN PlusDays(NextDay(dt), n - 1) ELSE PlusDays(PrevDay(dt), n + 1)
\* the fields handed to now.replace: year=now.year-1, month=12 in January,
\* month=now.month-1 otherwise; replace raises ValueError when they are no date
LastMonthFields(now) ==
  IF now.month = 1 THEN [now EXCEPT !.year = @ - 1, !.month = 12]
  ELSE [now EXCEPT !.month = @ - 1]
ValueError(origin) == Err("ValueError", origin, <<"day is out of range for month">>)
\* (last_month.replace(day=1) + timedelta(days=32)).replace(day=1) - timedelta(days=1)
LastDay(last_month) ==
  PlusDays([PlusDays([last_month EXCEPT !.day = 1], 32) EXCEPT !.day = 1], -1)
\* last_day.replace(hour=23, minute=59, second=59)
ExportTime(last_day) == [last_day EXCEPT !.hms = <<23, 59, 59>>]

\* one invocation of the live-export lambda_handler: where it is, the values
\* it computed, the calls it made and what it gave back
NoDate == <<>>
NewLive ==
  [pc |-> "idle", now |-> NoDate, export_time |-> NoDate, calls |-> <<>>,
   exportResult |-> "none", export_arn |-> Absent, outcome |-> "running",
   statusCode |-> 0, body |-> <<>>, failure |-> NoError]
\* return {'statusCode': 200, 'body': json.dumps({... 'exportArn': export_arn ...})}
LiveReturn200(l) ==
  [l EXCEPT !.pc = "done", !.outcome = "returned", !.statusCode = 200,
            !.body = <<"exportArn", l.export_arn>>]
\* (variant: the handler lets the error out)
LiveExcept_Raises(l, e) ==
  [l EXCEPT !.pc = "done", !.outcome = "raised", !.failure = e]
\* except Exception as e: return {'statusCode': 500, 'body': json.dumps({'error': ...})}
LiveExcept(l, e) ==
  [l EXCEPT !.pc = "done", !.outcome = "returned", !.statusCode = 500,
            !.body = <<"error", e.msg>>, !.failure = e]

\* ------------------------------------------------------------------ state
Init ==
  /\ run \in [Runs -> {NewRun(v) : v \in Variants}]
  /\ tables = [n \in Names |-> "NONE"]
  /\ owner = [n \in Names |-> 0]
  /\ exports = [r \in Runs |-> [status |-> "NONE", msg |-> Absent]]
  /\ clock = 0
  /\ transient \in BOOLEAN
  /\ live = NewLive

\* ------------------------------------------------------ the table service
\* what a call can raise besides its answer: a transient error at any time,
\* when the service is one that throttles or drops calls
Transient(origin) == IF transient THEN {ClientError(origin, "ThrottlingException")} ELSE {}
RestoreErrors(st) ==
  Transient("restore")
    \cup (IF st # "NONE" THEN {ClientError("restore", "TableAlreadyExistsException")} ELSE {})
ExportErrors(st) ==
  Transient("export")
    \cup (IF st # "ACTIVE" THEN {ClientError("export", "TableNotFoundException")} ELSE {})
DeleteErrors(st) ==
  Transient("cleanup")
    \cup (IF st = "NONE" THEN {ResourceNotFound("cleanup")} ELSE {})
    \cup (IF st \in {"CREATING", "RESTORING", "DELETING"}
            THEN {ClientError("cleanup", "ResourceInUseException")} ELSE {})
Origin(pc) == IF pc \in CleanupPcs THEN "cleanup" ELSE pc

\* ---------------------------------------------------------------- actions
\* lambda_handler up to the restore call: the invocation starts at some second
\* not before the last one read, and builds the name from int(time.time())
Start(r) ==
  /\ run[r].pc = "idle"
  /\ run[r].phase = "try"
  /\ \E now \in clock..MaxClock :
       /\ clock' = now
       /\ run' = [run EXCEPT ![r] =
            Goto([run[r] EXCEPT !.temp_table_name = TempTableName(run[r].variant, now),
                                !.inFlight = {q \in Runs : run[q].pc \notin {"idle", "done"}}],
                 "restore")]
  /\ UNCHANGED <<tables, owner, exports, transient, live>>

\* dynamodb_client.restore_table_to_point_in_time(TargetTableName=temp_table_name)
Restore(r) ==
  LET s == [run[r] EXCEPT !.restoreArgs = @ \cup {run[r].temp_table_name}]
      n == s.temp_table_name
  IN /\ run[r].pc = "restore"
     /\ \/ /\ tables[n] = "NONE"
           /\ \E st \in {"CREATING", "RESTORING"} : tables' = [tables EXCEPT ![n] = st]
           /\ owner' = [owner EXCEPT ![n] = r]
           /\ run' = [run EXCEPT ![r] = Done(s)]
        \/ /\ \E e \in RestoreErrors(tables[n]) : run' = [run EXCEPT ![r] = Fail(s, e)]
           /\ UNCHANGED <<tables, owner>>
     /\ UNCHANGED <<exports, clock, transient, live>>

\* (variant: the loop sleeps on every answer)
wait_for_table_status_NeverReturns(r, expected) ==
  /\ run[r].polls < MaxPolls
  /\ run' = [run EXCEPT ![r] = Sleep(Observe(run[r], tables[run[r].table_name], TRUE))]

\* one turn of the while True loop of wait_for_table_status(name, expected)
wait_for_table_status(r, expected) ==
  LET s == run[r]
      status == tables[s.table_name]
  IN \/ /\ status = "NONE"
        /\ IF expected = "DELETED"
             THEN run' = [run EXCEPT ![r] = Done(Observe(s, status, FALSE))]
             ELSE s.polls < MaxPolls /\ run' = [run EXCEPT ![r] = Sleep(Observe(s, status, TRUE))]
     \/ /\ status # "NONE"
        /\ status = expected
        /\ run' = [run EXCEPT ![r] = Done(Observe(s, status, FALSE))]
     \/ /\ status # expected
        /\ status \in {"CREATING", "RESTORING"}
        /\ s.polls < MaxPolls
        /\ run' = [run EXCEPT ![r] = Sleep(Observe(s, status, TRUE))]
     \/ /\ status \notin {"NONE", expected, "CREATING", "RESTORING"}
        /\ run' = [run EXCEPT ![r] =
             Fail([Observe(s, status, FALSE) EXCEPT !.unexpected = @ \cup {<<expected, status>>}],
                  UnexpectedTableStatus(Origin(s.pc), status))]
     \/ \E e \in Transient(Origin(s.pc)) :
          run' = [run EXCEPT ![r] = Fail(Observe(s, e.type, FALSE), e)]

\* table_description = wait_for_table_status(temp_table_name, 'ACTIVE')
WaitActive(r) ==
  /\ run[r].pc = "wait_active"
  /\ wait_for_table_status(r, "ACTIVE")
  /\ UNCHANGED <<tables, owner, exports, clock, transient, live>>

\* dynamodb_client.export_table_to_point_in_time / export_table_to_s3
Export(r) ==
  LET s == run[r]
      n == s.table_name
  IN /\ s.pc = "export"
     /\ \/ /\ tables[n] = "ACTIVE"
           /\ exports' = [exports EXCEPT ![r] = [status |-> "IN_PROGRESS", msg |-> Absent]]
           /\ run' = [run EXCEPT ![r] = Done([s EXCEPT !.exportedOwners = @ \cup {owner[n]}])]
        \/ /\ \E e \in ExportErrors(tables[n]) : run' = [run EXCEPT ![r] = Fail(s, e)]
           /\ UNCHANGED exports
     /\ UNCHANGED <<tables, owner, clock, transient, live>>

\* (variant: the loop returns whatever describe_export answers first)
wait_for_export_completion_ReturnsEarly(r) ==
  run' = [run EXCEPT ![r] = Done(Observe(run[r], exports[r].status, FALSE))]

\* one turn of the while True loop of wait_for_export_completion(export_arn)
wait_for_export_completion(r) ==
  LET s == run[r]
      status == exports[r].status
  IN \/ /\ status = "COMPLETED"
        /\ run' = [run EXCEPT ![r] = Done(Observe(s, status, FALSE))]
     \/ /\ status = "IN_PROGRESS"
        /\ s.polls < MaxPolls
        /\ run' = [run EXCEPT ![r] = Sleep(Observe(s, status, TRUE))]
     \/ /\ status \in {"FAILED", "CANCELLED"}
        /\ run' = [run EXCEPT ![r] =
             Fail([Observe(s, status, FALSE) EXCEPT !.exportFailure = exports[r].msg],
                  ExportFailed(exports[r].msg))]
     \/ /\ status \notin {"COMPLETED", "IN_PROGRESS", "FAILED", "CANCELLED"}
        /\ run' = [run EXCEPT ![r] =
             Fail(Observe(s, status, FALSE), UnexpectedExportStatus(status))]
     \/ \E e \in Transient("wait_export") :
          run' = [run EXCEPT ![r] = Fail(Observe(s, e.type, FALSE), e)]

\* export_desc = wait_for_export_completion(export_arn)
WaitExport(r) ==
  /\ run[r].pc = "wait_export"
  /\ wait_for_export_completion(r)
  /\ UNCHANGED <<tables, owner, exports, clock, transient, live>>

\* (variant: no existence check before the delete)
CleanupDescribe_NoCheck(r) ==
  /\ run[r].pc = "cleanup_describe"
  /\ run' = [run EXCEPT ![r] = Done(run[r])]
  /\ UNCHANGED <<tables, owner, exports, clock, transient, live>>

\* cleanup_temp_table: dynamodb_client.describe_table(TableName=table_name)
CleanupDescribe(r) ==
  LET s == run[r]
      status == tables[s.table_name]
  IN /\ s.pc = "cleanup_describe"
     /\ \/ /\ status # "NONE"
           /\ run' = [run EXCEPT ![r] = Done(s)]
        \/ /\ status = "NONE"
           /\ run' = [run EXCEPT ![r] = Fail(s, ResourceNotFound("cleanup"))]
        \/ \E e \in Transient("cleanup") : run' = [run EXCEPT ![r] = Fail(s, e)]
     /\ UNCHANGED <<tables, owner, exports, clock, transient, live>>

\* cleanup_temp_table: dynamodb_client.delete_table(TableName=table_name)
CleanupDelete(r) ==
  LET n == run[r].table_name
      s == [run[r] EXCEPT !.deleteCalls = @ + 1,
                          !.cleanups[Len(run[r].cleanups)].deletes = @ + 1,
                          !.deletedOwners = @ \cup (IF tables[n] = "NONE" THEN {} ELSE {owner[n]}),
                          !.deletedWhile = @ \cup {exports[r].status}]
  IN /\ run[r].pc = "cleanup_delete"
     /\ \/ /\ tables[n] \in {"ACTIVE", "INACCESSIBLE_ENCRYPTION_CREDENTIALS"}
           /\ tables' = [tables EXCEPT ![n] = "DELETING"]
           /\ run' = [run EXCEPT ![r] = Done(s)]
        \/ /\ \E e \in DeleteErrors(tables[n]) : run' = [run EXCEPT ![r] = Fail(s, e)]
           /\ UNCHANGED tables
     /\ UNCHANGED <<owner, exports, clock, transient, live>>

\* cleanup_temp_table: wait_for_table_status(table_name, 'DELETED')
WaitDeleted(r) ==
  /\ run[r].pc = "wait_deleted"
  /\ wait_for_table_status(r, "DELETED")
  /\ UNCHANGED <<tables, owner, exports, clock, transient, live>>

\* a caller of cleanup_temp_table alone, on any name of the handler's template
CleanupCall(r) ==
  /\ run[r].pc = "idle"
  /\ run[r].phase = "direct"
  /\ Len(run[r].cleanups) < MaxCalls
  /\ \E n \in OwnNames(run[r].variant) :
       run' = [run EXCEPT ![r] = CallCleanupOn([run[r] EXCEPT !.observed = <<>>], n)]
  /\ UNCHANGED <<tables, owner, exports, clock, transient, live>>

\* the table service moves a table on: a restore completes or breaks, a
\* deletion completes
TableProgress(n) ==
  /\ \/ /\ tables[n] \in {"CREATING", "RESTORING"}
        /\ tables' = [tables EXCEPT ![n] = "ACTIVE"]
        /\ UNCHANGED owner
     \/ /\ tables[n] \in {"CREATING", "RESTORING"}
        /\ tables' = [tables EXCEPT ![n] = "INACCESSIBLE_ENCRYPTION_CREDENTIALS"]
        /\ UNCHANGED owner
     \/ /\ tables[n] = "DELETING"
        /\ tables' = [tables EXCEPT ![n] = "NONE"]
        /\ owner' = [owner EXCEPT ![n] = 0]
  /\ UNCHANGED <<run, exports, clock, transient, live>>

\* the table service ends an export
ExportProgress(r) ==
  /\ exports[r].status = "IN_PROGRESS"
  /\ \/ exports' = [exports EXCEPT ![r] = [status |-> "COMPLETED", msg |-> Absent]]
     \/ \E st \in {"FAILED", "CANCELLED"}, m \in FailureMessages :
          exports' = [exports EXCEPT ![r] = [status |-> st, msg |-> m]]
     \/ exports' = [exports EXCEPT ![r] = [status |-> "UNKNOWN", msg |-> Absent]]
  /\ UNCHANGED <<run, tables, owner, clock, transient, live>>

Step(r) ==
  \/ Start(r)
  \/ Restore(r)
  \/ WaitActive(r)
  \/ Export(r)
  \/ WaitExport(r)
  \/ CleanupDescribe(r)
  \/ CleanupDelete(r)
  \/ WaitDeleted(r)

Service ==
  \/ \E n \in Names : TableProgress(n)
  \/ \E r \in Runs : ExportProgress(r)

\* one invocation
Next == (\E r \in SingleRun : Step(r)) \/ Service
Spec == Init /\ [][Next]_vars

\* cleanup_temp_table called on its own, several times, on tables that exist
\* (ACTIVE) or do not
InitCleanup ==
  /\ \E v \in Variants :
       /\ run = [r \in Runs |-> [NewRun(v) EXCEPT !.phase = "direct"]]
       /\ tables \in [Names -> {"NONE", "ACTIVE"}]
       /\ \A n \in Names \ OwnNames(v) : tables[n] = "NONE"
  /\ owner = [n \in Names |-> 0]
  /\ exports = [r \in Runs |-> [status |-> "NONE", msg |-> Absent]]
  /\ clock = 0
  /\ transient \in BOOLEAN
  /\ live = NewLive
NextCleanup ==
  \/ \E r \in SingleRun : CleanupCall(r) \/ CleanupDescribe(r) \/ CleanupDelete(r) \/ WaitDeleted(r)
  \/ \E n \in Names : TableProgress(n)
SpecCleanup == InitCleanup /\ [][NextCleanup]_vars

\* one invocation against a service that answers every call
InitReliable == Init /\ ~transient
SpecReliable == InitReliable /\ [][Next]_vars

\* one invocation that keeps running, against a service that finishes what it
\* started: a restore ends, an export ends, a deletion ends
Fairness ==
  /\ WF_vars(\E r \in SingleRun : Step(r))
  /\ \A n \in Names : WF_vars(TableProgress(n))
  /\ \A r \in Runs : WF_vars(ExportProgress(r))
SpecFair == Init /\ [][Next]_vars /\ Fairness

\* two invocations of one deployed handler that may overlap, against a service
\* that answers every call
InitOverlap == Init /\ run[1].variant = run[2].variant /\ ~transient
NextOverlap == (\E r \in Runs : Step(r)) \/ Service
SpecOverlap == InitOverlap /\ [][NextOverlap]_vars

\* ------------------------------------- monthly_backup_lambda.lambda_handler
\* now = datetime.now(jst)
LiveStart ==
  /\ live.pc = "idle"
  /\ \E now \in {dt \in Nows : ValidDate(dt)} :
       live' = [live EXCEPT !.pc = "date", !.now = now]
  /\ UNCHANGED <<run, tables, owner, exports, clock, transient>>

\* last_month, last_day and export_time
LiveDate ==
  /\ live.pc = "date"
  /\ LET last_month == LastMonthFields(live.now)
     IN IF ValidDate(last_month)
          THEN live' = [live EXCEPT !.pc = "identity",
                                    !.export_time = ExportTime(LastDay(last_month))]
          ELSE live' = LiveExcept(live, ValueError("date"))
  /\ UNCHANGED <<run, tables, owner, exports, clock, transient>>

\* boto3.client("sts").get_caller_identity()["Account"] inside the TableArn
LiveIdentity ==
  /\ live.pc = "identity"
  /\ LET l == [live EXCEPT !.calls = Append(@, "get_caller_identity")]
     IN \/ live' = [l EXCEPT !.pc = "export"]
        \/ live' = LiveExcept(l, ClientError("identity", "ThrottlingException"))
  /\ UNCHANGED <<run, tables, owner, exports, clock, transient>>

\* dynamodb.export_table_to_point_in_time(...), export_arn and the return
LiveExport ==
  /\ live.pc = "export"
  /\ LET l == [live EXCEPT !.calls = Append(@, "export_table_to_point_in_time")]
     IN \/ live' = LiveReturn200([l EXCEPT !.exportResult = "succeeded", !.export_arn = "ExportArn"])
        \/ \E code \in {"ThrottlingException", "PointInTimeRecoveryUnavailableException"} :
             live' = LiveExcept([l EXCEPT !.exportResult = "failed"], ClientError("export", code))
  /\ UNCHANGED <<run, tables, owner, exports, clock, transient>>

\* one invocation of the live-export handler; the restore-path handlers stay idle
InitLive == Init /\ ~transient /\ \A r \in Runs : run[r].variant = "lambda_function"
NextLive == LiveStart \/ LiveDate \/ LiveIdentity \/ LiveExport
SpecLive == InitLive /\ [][NextLive]_vars

\* ------------------------------------------------------------- properties
ExportSteps == {"export", "wait_export"}
Raised(r) == run[r].pc = "done" /\ run[r].outcome = "raised"
FirstFailure(r) == run[r].failures[1]
CleanupNames(r) == {run[r].cleanups[i].name : i \in 1..Len(run[r].cleanups)}
Overlapped(r, q) == q \in run[r].inFlight \/ r \in run[q].inFlight

\* C1 (checked against a service that answers every call): in every terminal state of a run (returned 200 or raised) the temporary
\* table that the run restored no longer exists in the table service.
C1_TempTableGoneAtTermination ==
  \A r \in Runs : run[r].pc = "done" =>
    \A n \in run[r].restoreArgs : ~(owner[n] = r /\ tables[n] # "NONE")

\* C2: two overlapping invocations build different temporary table names, and
\* neither issues delete_table on, or exports, a table the other one restored.
C2_OverlappingRunsDisjoint ==
  \A r, q \in Runs : Overlapped(r, q) =>
    /\ run[r].temp_table_name # run[q].temp_table_name
    /\ q \notin run[r].deletedOwners
    /\ q \notin run[r].exportedOwners

\* C3: when the restore succeeded and the export (its initiation or its wait)
\* failed, cleanup_temp_table was invoked exactly once and the error the run
\* raises is that export failure, also when the cleanup itself failed.
C3_ExportFailureReported ==
  \A r \in Runs : (Raised(r) /\ FirstFailure(r).origin \in ExportSteps) =>
    /\ Len(run[r].cleanups) = 1
    /\ run[r].raised = FirstFailure(r)
    /\ run[r].raised.origin \in ExportSteps
C3_Witness ==
  \E r \in Runs :
    /\ Raised(r)
    /\ FirstFailure(r).origin \in ExportSteps
    /\ run[r].cleanups[1].result = "raised"

\* C4: when describe_export reported FAILED or CANCELLED with failure message X,
\* the run ends by raising an error whose message contains X, after cleanup of
\* the temporary table was invoked; in both handler variants.
C4_FailureMessageVerbatim ==
  \A r \in Runs : (run[r].pc = "done" /\ run[r].exportFailure # Absent) =>
    /\ run[r].outcome = "raised"
    /\ Contains(run[r].raised, run[r].exportFailure)
    /\ Len(run[r].cleanups) >= 1

\* C5: a run that ends by raising has invoked cleanup_temp_table on the
\* temporary table name at least once, whichever step failed.
C5_CleanupBeforeRaise ==
  \A r \in Runs : Raised(r) =>
    /\ Len(run[r].cleanups) >= 1
    /\ CleanupNames(r) = {run[r].temp_table_name}
C5_Witness ==
  \E r \in Runs :
    /\ Raised(r)
    /\ FirstFailure(r).origin = "cleanup"
    /\ run[r].raised.origin = "cleanup"
    /\ Len(run[r].cleanups) = 2

\* C6: when the restore call failed and no temporary table was created, the
\* handler invokes cleanup_temp_table with the name built before the restore
\* call, that invocation returns without raising, and the run raises the
\* restore failure.
RestoreFailed(r) == Raised(r) /\ FirstFailure(r).origin = "restore"
C6_CleanupAfterFailedRestore ==
  \A r \in Runs : RestoreFailed(r) =>
    /\ Len(run[r].cleanups) = 1
    /\ run[r].cleanups[1].name \in run[r].restoreArgs
    /\ run[r].cleanups[1].result = "returned"
    /\ run[r].raised = FirstFailure(r)
\* C6 as amended: ... that invocation issues no delete_table and returns
\* without raising unless its describe_table call itself failed with an error
\* other than not-found, which the handler only logs; the run raises the
\* restore failure either way.
C6_CleanupAfterFailedRestore_Amended ==
  \A r \in Runs : RestoreFailed(r) =>
    /\ Len(run[r].cleanups) = 1
    /\ run[r].cleanups[1].name \in run[r].restoreArgs
    /\ run[r].cleanups[1].status = "NONE"
    /\ run[r].cleanups[1].deletes = 0
    /\ \/ run[r].cleanups[1].result = "returned"
       \/ /\ run[r].cleanups[1].result = "raised"
          /\ run[r].cleanups[1].error = ClientError("cleanup", "ThrottlingException")
    /\ run[r].raised = FirstFailure(r)
    /\ run[r].raised.origin = "restore"
C6_Witness ==
  \E r \in Runs :
    /\ RestoreFailed(r)
    /\ run[r].cleanups[1].status = "NONE"
    /\ run[r].cleanups[1].result = "returned"

\* C7: cleanup_temp_table called on a table name that does not exist returns
\* without error and issues no delete_table, any number of times in a row.
Finished(c) == c.result # "running"
C7_CleanupOfMissingTable ==
  \A r \in Runs : \A i \in 1..Len(run[r].cleanups) :
    LET c == run[r].cleanups[i]
    IN (c.status = "NONE" /\ Finished(c)) => (c.result = "returned" /\ c.deletes = 0)
\* C7 as amended: ... issues no delete_table and leaves the tables as they
\* are, any number of times in a row; it returns without error whenever
\* describe_table answers, and raises only the error of a describe_table call
\* that failed otherwise than with not-found.
C7_CleanupOfMissingTable_Amended ==
  \A r \in Runs : \A i \in 1..Len(run[r].cleanups) :
    LET c == run[r].cleanups[i]
    IN c.status = "NONE" =>
         /\ c.deletes = 0
         /\ tables[c.name] = "NONE"
         /\ ~Finished(c) => run[r].pc = "cleanup_describe"
         /\ Finished(c) =>
              \/ c.result = "returned"
              \/ c.error = ClientError("cleanup", "ThrottlingException")
C7_Witness ==
  \E r \in Runs :
    /\ Len(run[r].cleanups) = MaxCalls
    /\ \A i \in 1..MaxCalls :
         run[r].cleanups[i].status = "NONE" /\ run[r].cleanups[i].result = "returned"
    /\ run[r].cleanups[1].name = run[r].cleanups[2].name

\* C8: cleanup_temp_table called on an ACTIVE table, with every call answered,
\* issues one delete_table, keeps polling while the table is DELETING and
\* returns without error once it is gone.
C8_CleanupOfActiveTable ==
  \A r \in Runs : \A i \in 1..Len(run[r].cleanups) :
    LET c == run[r].cleanups[i]
    IN (~transient /\ c.status = "ACTIVE" /\ Finished(c)) =>
         (c.result = "returned" /\ c.deletes = 1)

\* C9: the temporary table name is built once, before the restore call; the
\* target of restore_table_to_point_in_time, the table every
\* wait_for_table_status waits for and the table every cleanup_temp_table
\* cleans up are that one name.
C9_OneTempTableName ==
  \A r \in Runs :
    /\ run[r].restoreArgs \cup run[r].waitArgs \cup CleanupNames(r) \subseteq {run[r].temp_table_name}
    /\ run[r].pc \notin {"idle", "restore"} => run[r].restoreArgs = {run[r].temp_table_name}
C9_Witness ==
  \E r \in Runs :
    /\ run[r].pc = "done"
    /\ run[r].restoreArgs # {}
    /\ run[r].waitArgs # {}
    /\ Len(run[r].cleanups) = 2

\* C10: the retry wrapper invokes the wrapped call at most MAX_RETRIES times,
\* returns at the first success, retries after every failure but the last
\* allowed one, and then raises that last invocation's own error.
C10_RetryWrapper ==
  \A r \in Runs : run[r].wrapped # "none" =>
    /\ run[r].attempts <= MAX_RETRIES
    /\ run[r].wrapResult = Running =>
         /\ run[r].attempts < MAX_RETRIES
         /\ run[r].lastAttempt # Returned
         /\ run[r].pc = run[r].wrapped
         /\ Len(run[r].delays) = run[r].attempts
    /\ run[r].wrapResult = Returned => run[r].lastAttempt = Returned
    /\ run[r].wrapResult \notin {Running, Returned} =>
         /\ run[r].attempts = MAX_RETRIES
         /\ run[r].wrapResult = run[r].lastAttempt

\* C11: the delay the retry wrapper sleeps after the n-th failed attempt (n from
\* 1) is min(WAIT_TIME * 2^(n-1), 300), and no sleep follows the last allowed
\* attempt.
C11_BackoffDelay ==
  \A r \in Runs : run[r].wrapped # "none" =>
    /\ Len(run[r].delays) <= MAX_RETRIES - 1
    /\ Len(run[r].delays) <= run[r].attempts
    /\ \A n \in 1..Len(run[r].delays) :
         run[r].delays[n] = Min(WAIT_TIME * Pow2(n - 1), BACKOFF_CAP)

\* C12: every invocation of the live-export handler returns a structured
\* response and never raises: statusCode 200 with the export identifier exactly
\* when the export initiation call succeeded, statusCode 500 with an error
\* message for every failure inside the handler; it initiates at most one export
\* and makes no polling or cleanup call.
LiveCallCount(name) == Cardinality({i \in 1..Len(live.calls) : live.calls[i] = name})
C12_LiveExportResponse ==
  /\ live.outcome # "raised"
  /\ live.pc = "done" =>
       /\ live.outcome = "returned"
       /\ live.statusCode \in {200, 500}
       /\ live.statusCode = 200 <=> live.exportResult = "succeeded"
       /\ live.statusCode = 200 =>
            live.failure = NoError /\ live.body = <<"exportArn", live.export_arn>> /\ live.export_arn # Absent
       /\ live.statusCode = 500 =>
            live.failure # NoError /\ live.body = <<"error", live.failure.msg>>
  /\ live.failure # NoError => (live.pc = "done" /\ live.statusCode = 500)
  /\ LiveCallCount("export_table_to_point_in_time") <= 1
  /\ \A i \in 1..Len(live.calls) :
       live.calls[i] \in {"get_caller_identity", "export_table_to_point_in_time"}
C12_Witness ==
  /\ live.pc = "done"
  /\ live.statusCode = 500
  /\ live.exportResult = "failed"
  /\ LiveCallCount("export_table_to_point_in_time") = 1

\* C19: for every current date-time (every month, every day of month that
\* exists, leap and non-leap years) the live-export handler computes the export
\* time as 23:59:59 on the last day of the month before the current one, and
\* the date computation never causes a statusCode 500 response.
PrecedingMonthEnd(now) ==
  LET y == IF now.month = 1 THEN now.year - 1 ELSE now.year
      m == IF now.month = 1 THEN 12 ELSE now.month - 1
  IN DateTime(y, m, DaysIn(y, m), <<23, 59, 59>>)
C19_ExportTimeComputed ==
  live.pc \notin {"idle", "date"} =>
    /\ live.failure.origin # "date"
    /\ live.export_time = PrecedingMonthEnd(live.now)

\* C13: when describe_export answers IN_PROGRESS k times and then COMPLETED,
\* wait_for_export_completion makes k+1 describe_export calls, sleeps after
\* each IN_PROGRESS answer and not after the COMPLETED one, and returns at the
\* first COMPLETED answer; it does not return before.
InProgressSeen(o) == {i \in 1..Len(o) : o[i][1] = "IN_PROGRESS"}
SleptAfter(o) == {i \in 1..Len(o) : o[i][2]}
ExportWaitFailed(r) == \E i \in 1..Len(run[r].failures) : run[r].failures[i].origin = "wait_export"
FirstAttempt(r) == run[r].wrapped = "wait_export" => run[r].delays = <<>>
C13_ExportPolling ==
  \A r \in Runs : (run[r].waited = "wait_export" /\ FirstAttempt(r)) =>
    LET o == run[r].observed
    IN /\ run[r].pc = "wait_export" =>
            (\A i \in 1..Len(o) : o[i] = <<"IN_PROGRESS", TRUE>>) /\ run[r].polls = Len(o)
       /\ (o # <<>> /\ o[Len(o)][1] = "COMPLETED") =>
            /\ InProgressSeen(o) = 1..(Len(o) - 1)
            /\ SleptAfter(o) = InProgressSeen(o)
            /\ run[r].pc # "wait_export"
            /\ ~ExportWaitFailed(r)
       /\ (run[r].pc # "wait_export" /\ ~ExportWaitFailed(r)) =>
            (o # <<>> /\ o[Len(o)][1] = "COMPLETED")
C13_Witness ==
  \E r \in Runs :
    /\ run[r].waited = "wait_export"
    /\ FirstAttempt(r)
    /\ run[r].observed = <<<<"IN_PROGRESS", TRUE>>, <<"IN_PROGRESS", TRUE>>, <<"COMPLETED", FALSE>>>>
    /\ run[r].pc = "cleanup_describe"
    /\ run[r].phase = "try"

\* C14: retry with backoff is applied to the initiating calls (a failed restore
\* or export call is re-attempted up to MAX_RETRIES times before the job
\* fails) and not to the poll loops (a poll loop that raised is not restarted).
C14_RetryOnlyInitiatingCalls ==
  \A r \in Runs :
    /\ (run[r].pc = "cleanup_describe" /\ run[r].phase = "except"
          /\ run[r].pending.origin \in InitiatingPcs) =>
         (run[r].wrapped = run[r].pending.origin /\ run[r].attempts = MAX_RETRIES)
    /\ run[r].pc \in WaitPcs => ~(run[r].wrapped = run[r].pc /\ run[r].attempts > 0)

\* C15: a poll that observes a status outside the expected set ends the wait:
\* no further describe call is made for that wait, and the error raised to the
\* job carries the raw status string.
ExpectedAnswers(w) ==
  CASE w = "wait_export" -> {"COMPLETED", "IN_PROGRESS", "FAILED", "CANCELLED", "ClientError"}
    [] w = "wait_active" -> {"ACTIVE", "CREATING", "RESTORING", "NONE", "ClientError"}
    [] w = "wait_deleted" -> {"DELETED", "CREATING", "RESTORING", "NONE", "ClientError"}
    [] OTHER -> {}
IsUnexpectedStatus(e) ==
  e.msg # <<>> /\ e.msg[1] \in {"Unexpected table status: ", "Unexpected export status: "}
LastObserved(r) == run[r].observed[Len(run[r].observed)][1]
C15_UnexpectedStatusFatal ==
  \A r \in Runs :
    /\ run[r].pc \in WaitPcs =>
         /\ \A i \in 1..Len(run[r].observed) : run[r].observed[i][1] \in ExpectedAnswers(run[r].pc)
         /\ run[r].wrapped = run[r].pc => ~IsUnexpectedStatus(run[r].lastAttempt)
    /\ (run[r].pc = "cleanup_describe" /\ run[r].phase = "except"
          /\ run[r].waited \in WaitPcs /\ run[r].pending.origin = Origin(run[r].waited)
          /\ run[r].observed # <<>> /\ LastObserved(r) \notin ExpectedAnswers(run[r].waited)) =>
         Contains(run[r].pending, LastObserved(r))

\* C16: a run goes restore -> table ready -> export initiated -> export ready
\* -> cleanup -> done: the export is initiated only after the table was
\* observed ACTIVE, the success-path cleanup starts only after the export was
\* observed COMPLETED, statusCode 200 is returned only after that and after
\* cleanup_temp_table returned without error, and never after a failure.
JobOrder == <<"restore", "wait_active", "export", "wait_export">>
IsPrefix(a, b) == Len(a) <= Len(b) /\ \A i \in 1..Len(a) : a[i] = b[i]
JobCount(r) == Cardinality({i \in 1..Len(run[r].steps) : run[r].steps[i] \notin CleanupPcs})
JobSteps(r) == SubSeq(run[r].steps, 1, JobCount(r))
SuccessPathCleanup(r) ==
  Len(run[r].cleanups) >= 1 /\ (run[r].failures = <<>> \/ FirstFailure(r).origin = "cleanup")
C16_StateOrder ==
  \A r \in Runs :
    /\ IsPrefix(JobSteps(r), JobOrder)
    /\ \A i \in (JobCount(r) + 1)..Len(run[r].steps) : run[r].steps[i] \in CleanupPcs
    /\ (run[r].pc \in ExportSteps \/ exports[r].status # "NONE") =>
         IsPrefix(<<"restore", "wait_active">>, run[r].steps)
    /\ SuccessPathCleanup(r) => IsPrefix(JobOrder, run[r].steps)
    /\ (run[r].pc = "done" /\ run[r].outcome = "returned") =>
         /\ IsPrefix(JobOrder, run[r].steps)
         /\ Len(run[r].cleanups) = 1
         /\ run[r].cleanups[1].result = "returned"
         /\ run[r].failures = <<>>
    /\ run[r].failures # <<>> => run[r].outcome # "returned"
C16_Witness ==
  \E r \in Runs :
    /\ run[r].pc = "done"
    /\ run[r].outcome = "returned"
    /\ run[r].steps = JobOrder \o <<"cleanup_describe", "cleanup_delete", "wait_deleted">>

\* C17: with a service that finishes what it started, every poll loop
\* terminates and every run that started eventually returns or raises.
C17_Termination ==
  \A r \in SingleRun :
    /\ (run[r].pc # "idle") ~> (run[r].pc = "done")
    /\ \A w \in WaitPcs : (run[r].pc = w) ~> (run[r].pc # w)
C17_Witness ==
  \E r \in SingleRun :
    /\ run[r].pc = "done"
    /\ run[r].outcome = "returned"
    /\ run[r].waited = "wait_deleted"
    /\ run[r].observed = <<<<"NONE", FALSE>>>>

\* C18: the job never issues delete_table on the temporary table while an
\* export it initiated on that table is still IN_PROGRESS, whatever the
\* external calls answer, a failing describe_export included.
C18_NoDeleteDuringExport ==
  \A r \in Runs : "IN_PROGRESS" \notin run[r].deletedWhile

\* C20: in every run cleanup_temp_table is invoked at most once and
\* delete_table is issued at most once, whichever step fails, the success-path
\* cleanup included.
C20_CleanupAtMostOnce ==
  \A r \in Runs : Len(run[r].cleanups) <= 1 /\ run[r].deleteCalls <= 1
====
